---- MODULE Spec2Model ----
(***************************************************************************)
(* Model of the retrieval-and-orchestration pipeline of graph-main:        *)
(*   - agent/repo_agent.py   RepoAnalysisAgent (stage orchestrator)        *)
(*   - diagram_generator.py  validate_json (structured-output validator)   *)
(*                           inject_data_into_html (template injector)     *)
(*   - agent/rag_pipeline.py RAGPipeline._create_documents, build_index    *)
(*                                                                         *)
(* Python values are modelled as records tagged by `ty`.  An LLM response  *)
(* is a text: a sequence of tokens.  The tokens are the lexical units the  *)
(* two regular expressions and json.loads of the source distinguish: the   *)
(* opening fence ```json, a bare fence ```, the two braces, prose, and a   *)
(* `"key": value` member of a JSON object (commas and whitespace are not   *)
(* tokens; a member's value is carried parsed, so braces nested inside a   *)
(* value are not seen by the regular expressions, which is how `.*`        *)
(* treats them between the outer braces).                                  *)
(***************************************************************************)
EXTENDS Integers, Sequences, FiniteSets, TLC

VARIABLES
    repo_data,      \* RepoAnalysisAgent.repo_data
    vectorstore,    \* RepoAnalysisAgent.rag.vectorstore
    overview,       \* RepoAnalysisAgent.overview
    diagram_plan,   \* RepoAnalysisAgent.diagram_plan
    plan_current,   \* history: diagram_plan came from a prompt built from the Overview now stored
    op,             \* the operation that ran last
    calls,          \* the LLM calls the last operation issued, in order
    exc,            \* the exception the last operation raised, or "none"
    ret,            \* the value the last operation returned
    vtext,          \* validate_json: its argument
    vdata,          \* validate_json: what json.loads produced
    vret,           \* validate_json: its result
    vparsed,        \* _parse_json_response: its result on the same text
    html_content,   \* inject_data_into_html: the template loaded
    json_data,      \* inject_data_into_html: the data injected last
    previous,       \* inject_data_into_html: the text the last injection was given
    artifact,       \* inject_data_into_html: what the last injection returned
    injections,     \* "none", "once" or "twice": injections made onto the template
    files,          \* RAGPipeline.build_index: its argument
    documents,      \* RAGPipeline.build_index: what the store was built from, or None
    indexed,        \* RAGPipeline.build_index: its return value, or the exception raised
    rag_op,         \* RAGPipeline: the retrieval method called last
    rag_arg,        \* RAGPipeline: the source path that call was given, or None
    rag_results,    \* RAGPipeline: what the similarity searches of that call returned
    rag_ret,        \* RAGPipeline: what that call returned, or the exception raised
    current_json_data,  \* app.py: st.session_state.current_json_data
    chat_messages       \* app.py: st.session_state.chat_messages

agentVars == <<repo_data, vectorstore, overview, diagram_plan, plan_current, op, calls, exc, ret>>
validateVars == <<vtext, vdata, vret, vparsed>>
injectVars == <<html_content, json_data, previous, artifact, injections,
                current_json_data, chat_messages>>
indexVars == <<files, documents, indexed, rag_op, rag_arg, rag_results, rag_ret>>
vars == <<repo_data, vectorstore, overview, diagram_plan, plan_current, op, calls, exc, ret,
          vtext, vdata, vret, vparsed,
          html_content, json_data, previous, artifact, injections,
          files, documents, indexed, rag_op, rag_arg, rag_results, rag_ret,
          current_json_data, chat_messages>>

----------------------------------------------------------------------------
(* Python values *)

None == [ty |-> "none"]
Str(s) == [ty |-> "str", s |-> s]
Num(n) == [ty |-> "num", n |-> n]
List(items) == [ty |-> "list", items |-> items]
Obj(m) == [ty |-> "obj", m |-> m]
Text(toks) == [ty |-> "text", toks |-> toks]
Raised == [ty |-> "raise"]
JSONDecodeError == [ty |-> "JSONDecodeError"]
Bool(b) == [ty |-> "bool", b |-> b]
\* a str whose text is kept, as a sequence of atoms (characters or words)
Chars(cs) == [ty |-> "str", cs |-> cs]
\* the exceptions `in` and `.get` raise on a value that does not support them
TypeError == [ty |-> "TypeError"]
AttributeError == [ty |-> "AttributeError"]
EmptyMap == [k \in {} |-> None]

\* bool(v) of Python: None, {} and [] are falsy
Truthy(v) ==
    CASE v.ty = "none" -> FALSE
      [] v.ty = "obj" -> DOMAIN v.m /= {}
      [] v.ty = "list" -> v.items /= <<>>
      [] OTHER -> TRUE

\* d.get(key, default) on a dict
Get(d, key, default) == IF key \in DOMAIN d.m THEN d.m[key] ELSE default

\* d[key] = value on a dict
SetItem(d, key, value) ==
    Obj([k \in (DOMAIN d.m) \cup {key} |-> IF k = key THEN value ELSE d.m[k]])

----------------------------------------------------------------------------
(* Texts *)

LB == [t |-> "lb"]          \* {
RB == [t |-> "rb"]          \* }
FO == [t |-> "fo"]          \* ```json
FC == [t |-> "fc"]          \* ```
X == [t |-> "x"]            \* prose without braces or fences
Mem(k, v) == [t |-> "mem", k |-> k, v |-> v]    \* "k": v
Val(v) == [t |-> "val", v |-> v]                \* a JSON value without braces: 42, null, "s", [1]

\* json.loads(span): the span is a JSON object exactly when it is a brace pair
\* around members only; a repeated key keeps its last value
IsObjectText(span) ==
    /\ Len(span) >= 2
    /\ span[1].t = "lb"
    /\ span[Len(span)].t = "rb"
    /\ \A i \in 2..(Len(span) - 1) : span[i].t = "mem"

LastIndexOfKey(span, k) ==
    CHOOSE i \in 2..(Len(span) - 1) :
        /\ span[i].k = k
        /\ \A j \in (i + 1)..(Len(span) - 1) : span[j].k /= k

json_loads(span) ==
    IF IsObjectText(span)
    THEN Obj([k \in {span[i].k : i \in 2..(Len(span) - 1)} |-> span[LastIndexOfKey(span, k)].v])
    ELSE IF Len(span) = 1 /\ span[1].t = "val" THEN span[1].v
    ELSE JSONDecodeError

\* re.search(r'```json\s*(\{.*?\})\s*```', text, re.DOTALL): the pairs <<i, j>> such
\* that the fence opens at i, the group is text[i+1..j]; the closing ``` also
\* matches the first three characters of a following ```json
FencedMatches(text) ==
    {ij \in (1..Len(text)) \X (1..Len(text)) :
        /\ text[ij[1]].t = "fo"
        /\ ij[1] + 1 <= Len(text)
        /\ text[ij[1] + 1].t = "lb"
        /\ ij[2] >= ij[1] + 2
        /\ text[ij[2]].t = "rb"
        /\ ij[2] + 1 <= Len(text)
        /\ text[ij[2] + 1].t \in {"fc", "fo"}}

\* the leftmost match, and for it the shortest group (.*? is lazy)
Min(S) == CHOOSE a \in S : \A b \in S : a <= b
Max(S) == CHOOSE a \in S : \A b \in S : a >= b
LeftmostOpen(ms) == Min({m[1] : m \in ms})
ShortestClose(ms, i) == Min({m[2] : m \in {n \in ms : n[1] = i}})
FencedGroup(text) ==
    SubSeq(text, LeftmostOpen(FencedMatches(text)) + 1,
           ShortestClose(FencedMatches(text), LeftmostOpen(FencedMatches(text))))

\* re.search(r'\{.*\}', text, re.DOTALL): from the first { to the last } after it
BraceIdx(text, t) == {i \in 1..Len(text) : text[i].t = t}
HasRawMatch(text) == \E i \in BraceIdx(text, "lb") : \E j \in BraceIdx(text, "rb") : i < j
RawGroup(text) == SubSeq(text, Min(BraceIdx(text, "lb")), Max(BraceIdx(text, "rb")))

\* RepoAnalysisAgent._parse_json_response
\* except json.JSONDecodeError: return None
CatchDecodeError(loaded) == IF loaded = JSONDecodeError THEN None ELSE loaded

_parse_json_response(response) ==
    CatchDecodeError(IF FencedMatches(response.toks) /= {}
                     THEN json_loads(FencedGroup(response.toks))
                     ELSE IF HasRawMatch(response.toks) THEN json_loads(RawGroup(response.toks))
                     ELSE None)

----------------------------------------------------------------------------
(* diagram_generator.validate_json (app.validate_json is the same code) *)

IsList(v) == v.ty = "list"
IsDict(v) == v.ty = "obj"

\* `key in data`: a key of a dict, an element of a list, a substring of a str;
\* a number, None and a bool are not iterable and the test raises TypeError
InRaises(data) == data.ty \in {"num", "none", "bool"}
In(key, data) ==
    CASE data.ty = "obj" -> key \in DOMAIN data.m
      [] data.ty = "list" -> \E i \in DOMAIN data.items : data.items[i] = Str(key)
      [] data.ty = "str" -> \E i \in DOMAIN data.cs : data.cs[i] = key
      [] OTHER -> FALSE

\* the text handed to json.loads: the fenced group, else the brace span, else all
extract_json_str(text) ==
    IF FencedMatches(text) /= {} THEN FencedGroup(text)
    ELSE IF HasRawMatch(text) THEN RawGroup(text)
    ELSE text

\* the Graph/Mindmap rules
\* rules that ask an edge for its 'source' only
validate_graph_SourceOnly(data) ==
    IF \E field \in {"nodes", "hierarchy", "edges"} : ~In(field, data) THEN None
    ELSE IF ~IsDict(data) THEN AttributeError
    ELSE IF ~IsList(data.m["nodes"]) THEN None
    ELSE IF \E i \in DOMAIN data.m["nodes"].items :
                LET node == data.m["nodes"].items[i] IN ~IsDict(node) \/ "id" \notin DOMAIN node.m
         THEN None
    ELSE IF ~IsList(data.m["edges"]) THEN None
    ELSE IF \E i \in DOMAIN data.m["edges"].items :
                LET edge == data.m["edges"].items[i]
                IN ~IsDict(edge) \/ "source" \notin DOMAIN edge.m
         THEN None
    ELSE data

\* data.get on a str or a list raises AttributeError
validate_graph(data) ==
    IF \E field \in {"nodes", "hierarchy", "edges"} : ~In(field, data) THEN None
    ELSE IF ~IsDict(data) THEN AttributeError
    ELSE IF ~IsList(data.m["nodes"]) THEN None
    ELSE IF \E i \in DOMAIN data.m["nodes"].items :
                LET node == data.m["nodes"].items[i] IN ~IsDict(node) \/ "id" \notin DOMAIN node.m
         THEN None
    ELSE IF ~IsList(data.m["edges"]) THEN None
    ELSE IF \E i \in DOMAIN data.m["edges"].items :
                LET edge == data.m["edges"].items[i]
                IN ~IsDict(edge) \/ "source" \notin DOMAIN edge.m \/ "target" \notin DOMAIN edge.m
         THEN None
    ELSE data

\* the schema dispatch on the decoded object
\* a dispatch that tests for the Timeline key first
validate_schema_TimelineFirst(data) ==
    IF InRaises(data) THEN TypeError
    ELSE IF In("mermaid_syntax", data) THEN data
    ELSE IF In("participants", data) /\ In("events", data)
    THEN IF ~IsDict(data) THEN AttributeError
         ELSE IF ~IsList(data.m["participants"]) THEN None
         ELSE IF ~IsList(data.m["events"]) THEN None
         ELSE data
    ELSE validate_graph(data)

validate_schema(data) ==
    IF InRaises(data) THEN TypeError
    ELSE IF In("participants", data) /\ In("events", data)
    THEN IF ~IsDict(data) THEN AttributeError
         ELSE IF ~IsList(data.m["participants"]) THEN None
         ELSE IF ~IsList(data.m["events"]) THEN None
         ELSE data
    ELSE IF In("mermaid_syntax", data) THEN data
    ELSE validate_graph(data)

\* validate_json from the decoded value on: only json.JSONDecodeError is caught, so
\* the result is the data, None, or the exception that leaves the function
ValidateLoaded(data) == IF data = JSONDecodeError THEN None ELSE validate_schema(data)

validate_json(json_str) == ValidateLoaded(json_loads(extract_json_str(json_str.toks)))

----------------------------------------------------------------------------
(* Inputs: repositories, diagram specs and LLM responses *)

\* repo_data as the GitHub fetcher hands it over; "empty" has no files
RepoNames == {"alpha", "empty"}
Repo(n) == [ty |-> "repo", name |-> n, full_name |-> "org/" \o n,
            nfiles |-> IF n = "empty" THEN 0 ELSE 1]

\* the length of the 'diagrams' list of the well-formed plan the LLM can return
MaxSpecs == 2

SpecGraph ==
    Obj([k \in {"type", "title", "description", "generation_prompt"} |->
            CASE k = "type" -> Str("Graph")
              [] k = "title" -> Str("Deps")
              [] k = "description" -> Str("module graph")
              [] OTHER -> Str("imports")])
SpecBare == Obj([k \in {"generation_prompt"} |-> Str("flow")])
SpecMindmap ==
    Obj([k \in {"type", "title"} |-> IF k = "type" THEN Str("Mindmap") ELSE Str("Map")])
SpecPie ==
    Obj([k \in {"type", "title"} |-> IF k = "type" THEN Str("Pie") ELSE Str("Shares")])
DirectSpecs == {SpecBare, SpecMindmap, SpecPie}

TProse == <<X>>
TMalformed == <<LB, X, RB>>
TEmptyObj == <<LB, RB>>
TOverview == <<FO, LB, Mem("project_type", Str("library")), Mem("components", List(<<>>)), RB, FC>>
\* a well-formed plan of MaxSpecs specs
PlanSpecList == [i \in 1..MaxSpecs |-> IF i % 2 = 1 THEN SpecGraph ELSE SpecBare]
TPlan == <<X, LB, Mem("diagrams", List(PlanSpecList)), RB>>
TPlanEmpty == <<LB, Mem("diagrams", List(<<>>)), RB>>
TSeq == <<LB, Mem("participants", List(<<>>)), Mem("events", List(<<>>)), Mem("_meta", Str("llm")), RB, X>>

\* what self.llm.invoke can do at a call of each stage: raise, or return one of the
\* texts the stage's handling tells apart (prose, malformed braces, the empty object,
\* an object of another shape, the shape the stage asks for)
StageTexts(stage) ==
    CASE stage = "overview" -> {TProse, TMalformed, TEmptyObj, TOverview}
      [] stage = "plan" -> {TProse, TEmptyObj, TOverview, TPlanEmpty, TPlan}
      [] stage = "diagram" -> {TProse, TEmptyObj, TOverview, TSeq}
      [] OTHER -> {TProse}
LLMOutcomes(stage) == {Text(t) : t \in StageTexts(stage)} \cup {Raised}

----------------------------------------------------------------------------
(* RepoAnalysisAgent.  An operation is a function of the agent's state s and  *)
(* of the oracle o, the sequence of outcomes of the LLM calls it will issue;  *)
(* s.k counts the calls issued, s.resp is the last response.                  *)

Raise(s, e) == [s EXCEPT !.exc = e]
Failed(s) == s.exc /= "none"

\* RepoAnalysisAgent._call_llm: the call is logged with what the prompt was
\* built from; an exception of self.llm.invoke propagates
LogCall(s, stage, spec, r) ==
    [s EXCEPT !.k = s.k + 1,
              !.calls = Append(s.calls, [stage |-> stage, had_overview |-> Truthy(s.overview),
                                         had_plan |-> Truthy(s.diagram_plan),
                                         spec |-> spec, resp |-> r]),
              !.resp = r,
              !.exc = IF r = Raised THEN "LLMError" ELSE s.exc]

_call_llm(s, o, stage, spec) == LogCall(s, stage, spec, o[s.k + 1])

\* a statement sequence: the call is not reached once an exception is on its way
CallUnlessFailed(s, o, stage, spec) == IF Failed(s) THEN s ELSE _call_llm(s, o, stage, spec)

\* RAGPipeline.query and the helpers built on it
rag_query(s) ==
    IF Failed(s) THEN s
    ELSE IF s.vectorstore = None THEN Raise(s, "ValueError: Index not built")
    ELSE s

\* RAGPipeline.build_index
build_index(s, repo) ==
    IF repo.nfiles = 0
    THEN Raise(s, "ValueError: No documents to index")
    ELSE [s EXCEPT !.vectorstore = [ty |-> "index", repo |-> repo.name], !.ret = Num(repo.nfiles)]

\* an ingest that records repo_data once the index is built
ingest_repository_IndexFirst(s, repo) ==
    IF Failed(build_index(s, repo)) THEN build_index(s, repo)
    ELSE [build_index(s, repo) EXCEPT !.repo_data = repo]
ingest_repository(s, repo) == build_index([s EXCEPT !.repo_data = repo], repo)

\* a fallback that forgets the raw response
DegradedOverview_NoRaw(response) ==
    Obj([k \in {"project_type", "architecture_pattern", "components", "raw_analysis"} |->
            CASE k = "project_type" -> Str("unknown")
              [] k = "architecture_pattern" -> Str("unknown")
              [] k = "components" -> List(<<>>)
              [] OTHER -> Str("")])

DegradedOverview(response) ==
    Obj([k \in {"project_type", "architecture_pattern", "components", "raw_analysis"} |->
            CASE k = "project_type" -> Str("unknown")
              [] k = "architecture_pattern" -> Str("unknown")
              [] k = "components" -> List(<<>>)
              [] OTHER -> response])

\* self.overview = ...; return self.overview
StoreOverview(s, ov) == [s EXCEPT !.overview = ov, !.plan_current = FALSE, !.ret = ov]

\* a fallback that only a response without JSON takes
OverviewFromParsed_NoneOnly(s, parsed) ==
    StoreOverview(s, IF parsed = None THEN DegradedOverview(s.resp) ELSE parsed)
\* analyze_overview from the parsed response on
OverviewFromParsed(s, parsed) ==
    StoreOverview(s, IF ~Truthy(parsed) THEN DegradedOverview(s.resp) ELSE parsed)

\* analyze_overview from the LLM's answer on
OverviewFromResponse(s) ==
    IF Failed(s) THEN s ELSE OverviewFromParsed(s, _parse_json_response(s.resp))

analyze_overview(s, o) ==
    IF ~Truthy(s.repo_data)
    THEN Raise(s, "ValueError: No repository data")
    ELSE OverviewFromResponse(CallUnlessFailed(rag_query(s), o, "overview", None))

\* a default plan whose title leaves the repository name out
DefaultPlan_Untitled(name) ==
    Obj([k \in {"diagrams", "reasoning"} |->
            IF k = "diagrams"
            THEN List(<<Obj([j \in {"type", "title", "description", "generation_prompt"} |->
                              CASE j = "type" -> Str("Sequence")
                                [] j = "title" -> Str("Main Flow")
                                [] j = "description" -> Str("Main application flow")
                                [] OTHER -> Str("Main request/response flow in " \o name)])>>)
            ELSE Str("Default diagram plan (LLM parsing failed)")])

DefaultPlan(name) ==
    Obj([k \in {"diagrams", "reasoning"} |->
            IF k = "diagrams"
            THEN List(<<Obj([j \in {"type", "title", "description", "generation_prompt"} |->
                              CASE j = "type" -> Str("Sequence")
                                [] j = "title" -> Str(name \o " Main Flow")
                                [] j = "description" -> Str("Main application flow")
                                [] OTHER -> Str("Main request/response flow in " \o name)])>>)
            ELSE Str("Default diagram plan (LLM parsing failed)")])

\* a store that assigns the plan to self.overview as well
StorePlan_InOverview(s, plan) ==
    [s EXCEPT !.overview = plan, !.diagram_plan = plan, !.plan_current = TRUE, !.ret = plan]

\* self.diagram_plan = ...; return self.diagram_plan
StorePlan(s, plan) == [s EXCEPT !.diagram_plan = plan, !.plan_current = TRUE, !.ret = plan]

\* plan_diagrams from the parsed response on
PlanFromParsed(s, parsed) ==
    StorePlan(s, IF ~Truthy(parsed) THEN DefaultPlan(s.repo_data.name) ELSE parsed)

\* plan_diagrams from the LLM's answer on
PlanFromResponse(s) ==
    IF Failed(s) THEN s ELSE PlanFromParsed(s, _parse_json_response(s.resp))

\* plan_diagrams after its first statement
PlanWithOverview(s, o) ==
    IF Failed(s) THEN s ELSE PlanFromResponse(CallUnlessFailed(rag_query(s), o, "plan", None))

\* plan_diagrams without the auto-invoke of stage 1
plan_diagrams_NoAutoInvoke(s, o) == PlanWithOverview(s, o)

plan_diagrams(s, o) ==
    PlanWithOverview(IF ~Truthy(s.overview) THEN analyze_overview(s, o) ELSE s, o)

\* the '_meta' that generate_diagram_data attaches
SpecMeta(diagram_spec) ==
    Obj([k \in {"type", "title", "description"} |->
            CASE k = "type" -> Get(diagram_spec, "type", Str("Sequence"))
              [] k = "title" -> Get(diagram_spec, "title", Str("Untitled"))
              [] OTHER -> Get(diagram_spec, "description", Str(""))])

\* an attach that keeps a '_meta' the response already holds (setdefault)
attach_meta_KeepExisting(diagram_data, diagram_spec) ==
    IF "_meta" \in DOMAIN diagram_data.m THEN diagram_data
    ELSE SetItem(diagram_data, "_meta", SpecMeta(diagram_spec))

\* diagram_data['_meta'] = {...}
attach_meta(diagram_data, diagram_spec) == SetItem(diagram_data, "_meta", SpecMeta(diagram_spec))

\* the prompt of generate_diagram_data: Sequence and unknown types read repo_data,
\* Graph issues a second query, Mindmap reads self.overview.get
BuildDiagramPrompt(s, diagram_spec) ==
    IF Failed(s) THEN s
    ELSE IF Get(diagram_spec, "type", Str("Sequence")) = Str("Mindmap") /\ s.overview = None
    THEN Raise(s, "AttributeError")
    ELSE s

\* if diagram_data: diagram_data['_meta'] = ...; return diagram_data
DiagramFromParsed(s, diagram_data, diagram_spec) ==
    [s EXCEPT !.ret = IF Truthy(diagram_data) THEN attach_meta(diagram_data, diagram_spec)
                       ELSE diagram_data]

\* generate_diagram_data from the LLM's answer on
DiagramFromResponse(s, diagram_spec) ==
    IF Failed(s) THEN s ELSE DiagramFromParsed(s, _parse_json_response(s.resp), diagram_spec)

generate_diagram_data(s, o, diagram_spec) ==
    DiagramFromResponse(
        CallUnlessFailed(BuildDiagramPrompt(rag_query(s), diagram_spec), o, "diagram", diagram_spec),
        diagram_spec)

\* plan.get('diagrams', [])
PlanSpecs(plan) == Get(plan, "diagrams", List(<<>>)).items

\* if diagram_data: diagrams.append(diagram_data)
AppendIfData(diagrams, s) ==
    IF Failed(s) THEN s
    ELSE [s EXCEPT !.ret = IF Truthy(s.ret) THEN List(Append(diagrams.items, s.ret)) ELSE diagrams]

\* a loop that a spec without data ends (break)
RECURSIVE GenerateLoop_StopAtFailure(_, _, _, _)
GenerateLoop_StopAtFailure(s, o, specs, i) ==
    IF Failed(s) \/ i > Len(specs) \/ (i > 1 /\ Len(s.ret.items) < i - 1) THEN s
    ELSE GenerateLoop_StopAtFailure(
             AppendIfData(s.ret, generate_diagram_data(s, o, specs[i])), o, specs, i + 1)

\* the for loop of generate_all_diagrams from the i-th spec on; s.ret is `diagrams`
RECURSIVE GenerateLoop(_, _, _, _)
GenerateLoop(s, o, specs, i) ==
    IF Failed(s) \/ i > Len(specs) THEN s
    ELSE GenerateLoop(AppendIfData(s.ret, generate_diagram_data(s, o, specs[i])), o, specs, i + 1)

\* generate_all_diagrams after its first statement
GenerateWithPlan(s, o) ==
    IF Failed(s) THEN s
    ELSE GenerateLoop([s EXCEPT !.ret = List(<<>>)], o, PlanSpecs(s.diagram_plan), 1)

generate_all_diagrams(s, o) ==
    GenerateWithPlan(IF ~Truthy(s.diagram_plan) THEN plan_diagrams(s, o) ELSE s, o)

\* generate_documentation from the LLM's answer on
DocumentationFromResponse(s) == IF Failed(s) THEN s ELSE [s EXCEPT !.ret = s.resp]

generate_documentation(s, o, diagrams) ==
    IF s.repo_data = None
    THEN Raise(s, "TypeError")
    ELSE DocumentationFromResponse(_call_llm(s, o, "doc", diagrams))

----------------------------------------------------------------------------
(* The agent as a state machine: one action per public method *)

Cur == [repo_data |-> repo_data, vectorstore |-> vectorstore, overview |-> overview,
        diagram_plan |-> diagram_plan, plan_current |-> plan_current,
        calls |-> <<>>, exc |-> "none", ret |-> None, resp |-> None, k |-> 0]

Commit(s, name) ==
    /\ repo_data' = s.repo_data
    /\ vectorstore' = s.vectorstore
    /\ overview' = s.overview
    /\ diagram_plan' = s.diagram_plan
    /\ plan_current' = s.plan_current
    /\ op' = name
    /\ calls' = s.calls
    /\ exc' = s.exc
    /\ ret' = IF s.exc = "none" THEN s.ret ELSE None
    /\ UNCHANGED <<validateVars, injectVars, indexVars>>

\* the outcomes of the next LLM calls, one per stage of `stages`
RECURSIVE Oracles(_)
Oracles(stages) ==
    IF stages = <<>> THEN {<<>>}
    ELSE {<<r>> \o rest : r \in LLMOutcomes(Head(stages)), rest \in Oracles(Tail(stages))}

\* the LLM calls an operation can need in the current state
OverviewCalls == IF Truthy(overview) THEN <<>> ELSE <<"overview">>
PlanCalls == IF Truthy(diagram_plan) THEN <<>> ELSE OverviewCalls \o <<"plan">>

IngestRepository ==
    \E n \in RepoNames : Commit(ingest_repository(Cur, Repo(n)), "ingest_repository")

AnalyzeOverview ==
    \E o \in Oracles(<<"overview">>) : Commit(analyze_overview(Cur, o), "analyze_overview")

PlanDiagrams ==
    \E o \in Oracles(OverviewCalls \o <<"plan">>) :
        Commit(plan_diagrams(Cur, o), "plan_diagrams")

GenerateDiagramData ==
    \E spec \in DirectSpecs : \E o \in Oracles(<<"diagram">>) :
        Commit(generate_diagram_data(Cur, o, spec), "generate_diagram_data")

\* the per-spec calls that follow once the plan is there
DiagramCalls(s) ==
    IF Failed(s) THEN <<>> ELSE [i \in 1..Len(PlanSpecs(s.diagram_plan)) |-> "diagram"]

\* the calls of the loop are drawn once the plan it iterates over is known
GenerateAllDiagrams ==
    \E o1 \in Oracles(PlanCalls) :
        \E o2 \in Oracles(DiagramCalls(IF Truthy(diagram_plan) THEN Cur
                                       ELSE plan_diagrams(Cur, o1))) :
            Commit(generate_all_diagrams(Cur, o1 \o o2), "generate_all_diagrams")

\* the caller passes the list generate_all_diagrams returned, or no diagram
GenerateDocumentation ==
    \E d \in {List(<<>>)} \cup (IF op = "generate_all_diagrams" /\ exc = "none" THEN {ret} ELSE {}) :
        \E o \in Oracles(<<"doc">>) :
            Commit(generate_documentation(Cur, o, d), "generate_documentation")

\* the agent, the validator, the injector and the indexer before any of them is used
AgentIdle ==
    /\ repo_data = None
    /\ vectorstore = None
    /\ overview = None
    /\ diagram_plan = None
    /\ plan_current = FALSE
    /\ op = "init"
    /\ calls = <<>>
    /\ exc = "none"
    /\ ret = None

ValidateIdle ==
    /\ vtext = None
    /\ vdata = None
    /\ vret = None
    /\ vparsed = None

InjectIdle ==
    /\ html_content = None
    /\ json_data = None
    /\ previous = None
    /\ artifact = None
    /\ injections = "none"
    /\ current_json_data = None
    /\ chat_messages = <<>>

IndexIdle ==
    /\ files = None
    /\ documents = None
    /\ indexed = None
    /\ rag_op = "none"
    /\ rag_arg = None
    /\ rag_results = None
    /\ rag_ret = None

Init == AgentIdle /\ ValidateIdle /\ InjectIdle /\ IndexIdle

Next ==
    \/ IngestRepository
    \/ AnalyzeOverview
    \/ PlanDiagrams
    \/ GenerateDiagramData
    \/ GenerateAllDiagrams
    \/ GenerateDocumentation

Spec == Init /\ [][Next]_vars

----------------------------------------------------------------------------
(* Properties of the stage orchestrator, checked under Spec *)

\* no slice of the text is a JSON object
NoJsonObject(text) ==
    \A i \in 1..Len(text) : \A j \in i..Len(text) : ~IsObjectText(SubSeq(text, i, j))

LastCall == calls[Len(calls)]

\* the per-spec calls of the last operation, and those whose response gave data
IsDiagramCall(c) == c.stage = "diagram"
GaveData(c) == c.resp /= Raised /\ Truthy(_parse_json_response(c.resp))
DiagramCallLog == SelectSeq(calls, IsDiagramCall)
ProducedCallLog == SelectSeq(DiagramCallLog, GaveData)

\* C1: when the overview-stage LLM call returns a text no part of which is a JSON
\* object, analyze_overview does not raise, and it returns and stores the degraded
\* Overview: project_type and architecture_pattern "unknown", no components,
\* raw_analysis the raw text.
C1_DegradeNotFail ==
    (/\ op = "analyze_overview"
     /\ calls /= <<>>
     /\ calls[1].resp /= Raised
     /\ NoJsonObject(calls[1].resp.toks))
    => /\ exc = "none"
       /\ ret = overview
       /\ overview.ty = "obj"
       /\ DOMAIN overview.m = {"project_type", "architecture_pattern", "components", "raw_analysis"}
       /\ overview.m["project_type"] = Str("unknown")
       /\ overview.m["architecture_pattern"] = Str("unknown")
       /\ overview.m["components"] = List(<<>>)
       /\ overview.m["raw_analysis"] = calls[1].resp

C1_Witness ==
    /\ op = "analyze_overview"
    /\ exc = "none"
    /\ calls /= <<>>
    /\ calls[1].resp = Text(TMalformed)
    /\ overview.m["project_type"] = Str("unknown")

\* C2: when the plan-stage LLM call returns unparsable text, plan_diagrams returns
\* and stores a plan of exactly one spec, of type Sequence, titled
\* "<repo name> Main Flow".
C2_PlanFallback ==
    (/\ op = "plan_diagrams"
     /\ calls /= <<>>
     /\ LastCall.stage = "plan"
     /\ LastCall.resp /= Raised
     /\ NoJsonObject(LastCall.resp.toks))
    => /\ exc = "none"
       /\ ret = diagram_plan
       /\ diagram_plan.ty = "obj"
       /\ "diagrams" \in DOMAIN diagram_plan.m
       /\ diagram_plan.m["diagrams"].ty = "list"
       /\ Len(diagram_plan.m["diagrams"].items) = 1
       /\ diagram_plan.m["diagrams"].items[1].m["type"] = Str("Sequence")
       /\ diagram_plan.m["diagrams"].items[1].m["title"] = Str(repo_data.name \o " Main Flow")

C2_Witness ==
    /\ op = "plan_diagrams"
    /\ exc = "none"
    /\ calls /= <<>>
    /\ LastCall.stage = "plan"
    /\ LastCall.resp = Text(TProse)
    /\ Len(PlanSpecs(diagram_plan)) = 1

\* C3: after plan_diagrams completes, whatever the LLM returned, the stored plan
\* holds at least one DiagramSpec, and generate_all_diagrams generates at least one.
C3_PlanNeverEmpty ==
    /\ (op = "plan_diagrams" /\ exc = "none") => Len(PlanSpecs(diagram_plan)) >= 1
    /\ (op = "generate_all_diagrams" /\ exc = "none") => Len(DiagramCallLog) >= 1

\* C4: generate_all_diagrams issues one generation per spec of the plan, in plan
\* order, whether or not earlier generations gave data; it returns the data of
\* exactly the generations that gave data, in that order; and it raises only when
\* the index is missing or an LLM call raises.
C4_OrderedSubsequence ==
    (op = "generate_all_diagrams")
    => /\ (vectorstore /= None /\ \A i \in DOMAIN calls : calls[i].resp /= Raised)
              => exc = "none"
       /\ exc = "none" =>
              /\ Len(DiagramCallLog) = Len(PlanSpecs(diagram_plan))
              /\ \A i \in DOMAIN DiagramCallLog :
                     DiagramCallLog[i].spec = PlanSpecs(diagram_plan)[i]
              /\ ret.ty = "list"
              /\ Len(ret.items) = Len(ProducedCallLog)
              /\ Len(ret.items) <= Len(PlanSpecs(diagram_plan))
              /\ \A k \in DOMAIN ret.items :
                     LET parsed == _parse_json_response(ProducedCallLog[k].resp) IN
                     /\ \A key \in DOMAIN parsed.m \ {"_meta"} :
                            /\ key \in DOMAIN ret.items[k].m
                            /\ ret.items[k].m[key] = parsed.m[key]
                     /\ DOMAIN ret.items[k].m = DOMAIN parsed.m \cup {"_meta"}

C4_Witness ==
    /\ op = "generate_all_diagrams"
    /\ exc = "none"
    /\ Len(DiagramCallLog) >= 2
    /\ ~GaveData(DiagramCallLog[1])
    /\ GaveData(DiagramCallLog[2])
    /\ Len(ret.items) = 1

\* C5: every diagram in the list generate_all_diagrams returns is accepted by the
\* schema rules of validate_json (Sequence, Timeline or Graph/Mindmap).
C5_ResultsValidated ==
    (op = "generate_all_diagrams" /\ exc = "none")
    => \A k \in DOMAIN ret.items : validate_schema(ret.items[k]) /= None

\* the _meta a diagram generated from diagram_spec is to carry
ExpectedMeta(diagram_spec) ==
    Obj([k \in {"type", "title", "description"} |->
            IF k \in DOMAIN diagram_spec.m THEN diagram_spec.m[k]
            ELSE IF k = "type" THEN Str("Sequence")
            ELSE IF k = "title" THEN Str("Untitled")
            ELSE Str("")])

\* C6: a diagram returned by generate_diagram_data, and each diagram in the list
\* generate_all_diagrams returns, has '_meta' equal to {type, title, description}
\* of the spec it was generated from, with the defaults Sequence, Untitled and "",
\* whatever '_meta' the LLM response held.
C6_MetaFromSpec ==
    /\ (op = "generate_diagram_data" /\ exc = "none" /\ Truthy(ret))
           => /\ "_meta" \in DOMAIN ret.m
              /\ ret.m["_meta"] = ExpectedMeta(calls[1].spec)
    /\ (op = "generate_all_diagrams" /\ exc = "none")
           => /\ Len(ret.items) = Len(ProducedCallLog)
              /\ \A k \in DOMAIN ret.items :
                     /\ "_meta" \in DOMAIN ret.items[k].m
                     /\ ret.items[k].m["_meta"] = ExpectedMeta(ProducedCallLog[k].spec)

C6_Witness ==
    /\ op = "generate_diagram_data"
    /\ exc = "none"
    /\ calls[1].spec = SpecBare
    /\ calls[1].resp = Text(TSeq)
    /\ ret.m["_meta"].m["title"] = Str("Untitled")

StageRank(stage) ==
    CASE stage = "overview" -> 1 [] stage = "plan" -> 2 [] stage = "diagram" -> 3 [] OTHER -> 4

\* C7: within every operation the LLM calls follow the stage order; a plan-stage
\* call is issued only with an Overview stored, and a per-spec call of
\* generate_all_diagrams only with a plan stored.
C7_StagesOrdered ==
    /\ \A i \in DOMAIN calls :
           /\ calls[i].stage = "plan" => calls[i].had_overview
           /\ (op = "generate_all_diagrams" /\ calls[i].stage = "diagram")
                  => (calls[i].had_plan /\ calls[i].had_overview)
    /\ \A i \in DOMAIN calls : \A j \in DOMAIN calls :
           i < j => StageRank(calls[i].stage) <= StageRank(calls[j].stage)

C7_Witness ==
    /\ op = "generate_all_diagrams"
    /\ exc = "none"
    /\ Len(calls) >= 3
    /\ calls[1].stage = "overview"
    /\ calls[2].stage = "plan"
    /\ calls[3].stage = "diagram"

LaterStageOps ==
    {"plan_diagrams", "generate_diagram_data", "generate_all_diagrams", "generate_documentation"}

\* C8: once an Overview is stored, a call of plan_diagrams, generate_diagram_data,
\* generate_all_diagrams or generate_documentation leaves it as it is and issues no
\* overview-stage LLM call.
C8_OverviewFrame ==
    [][(overview /= None /\ op' \in LaterStageOps)
           => /\ overview' = overview
              /\ \A i \in DOMAIN calls' : calls'[i].stage /= "overview"]_vars

C8_Witness ==
    /\ op = "plan_diagrams"
    /\ exc = "none"
    /\ Len(calls) = 1
    /\ calls[1].stage = "plan"
    /\ overview /= None

\* C9: generate_all_diagrams generates from a plan computed from the Overview now
\* stored: a plan stored before analyze_overview was run again is not used.
C9_RerunDiscardsDownstream ==
    (op = "generate_all_diagrams" /\ exc = "none") => plan_current

----------------------------------------------------------------------------
(* validate_json as a state machine: an input text is drawn, then validated *)

Pending == [ty |-> "pending"]

GoodNode == Obj([k \in {"id"} |-> Str("n1")])

\* the members an input object is made of
MemberTokens ==
    << Mem("participants", List(<<>>)),
       Mem("participants", Str("p")),
       Mem("events", List(<<>>)),
       Mem("events", Str("e")),
       Mem("mermaid_syntax", Str("gantt")),
       Mem("nodes", List(<<GoodNode>>)),
       Mem("hierarchy", Obj(EmptyMap)),
       Mem("edges", List(<<>>)) >>

\* the most members an input object has
MaxMembers == 6

MemberChoices == {I \in SUBSET (1..Len(MemberTokens)) : Cardinality(I) <= MaxMembers}

\* the members of I, in the order of MemberTokens or in the reverse order
RECURSIVE Body(_, _, _)
Body(I, i, ascending) ==
    IF i > Len(MemberTokens) THEN <<>>
    ELSE LET rest == Body(I, i + 1, ascending)
             here == IF i \in I THEN <<MemberTokens[i]>> ELSE <<>>
         IN IF ascending THEN here \o rest ELSE rest \o here

\* the object alone, in a json fence, inside prose, or left open
Wrap(kind, body) ==
    CASE kind = "raw" -> <<LB>> \o body \o <<RB>>
      [] kind = "fenced" -> <<X, FO, LB>> \o body \o <<RB, FC>>
      [] kind = "prose" -> <<X, LB>> \o body \o <<RB, X>>
      [] OTHER -> <<LB>> \o body

ObjectInputs ==
    {Text(Wrap(kind, Body(I, 1, asc))) :
        kind \in {"raw", "fenced", "prose", "open"}, I \in MemberChoices, asc \in BOOLEAN}

\* objects for the Graph/Mindmap rules: what 'nodes' and 'edges' can hold
Node(id) == Obj([k \in {"id"} |-> Str(id)])
Edge(source, target) ==
    Obj([k \in {"source", "target"} |-> IF k = "source" THEN Str(source) ELSE Str(target)])
NodesChoices ==
    { Str("n1"),
      List(<<>>),
      List(<<Node("n1")>>),
      List(<<Node("n1"), Node("n2")>>),
      List(<<Node("n1"), Node("n1")>>),
      List(<<Node("n1"), Str("n2")>>),
      List(<<Node("n1"), Obj([k \in {"label"} |-> Str("n2")])>>) }
EdgesChoices ==
    { Str("n1-n2"),
      List(<<>>),
      List(<<Edge("n1", "n1")>>),
      List(<<Edge("n1", "n2")>>),
      List(<<Edge("n1", "n1"), Obj([k \in {"source"} |-> Str("n1")])>>),
      List(<<Obj([k \in {"target"} |-> Str("n1")])>>),
      List(<<Num(1)>>) }
\* a member that is there with one of the values, or is not there
Optional(k, values) == {<<>>} \cup {<<Mem(k, v)>> : v \in values}
GraphInputs ==
    {Text(<<LB>> \o nodes \o hierarchy \o edges \o <<RB>>) :
        nodes \in Optional("nodes", NodesChoices),
        hierarchy \in Optional("hierarchy", {Obj(EmptyMap)}),
        edges \in Optional("edges", EdgesChoices)}

\* texts of a JSON value that is not an object, alone or after prose
JsonValues ==
    { Num(42), None, Bool(TRUE),
      Chars(<<"hello">>),
      Chars(<<"participants", " and ", "events">>),
      Chars(<<"mermaid_syntax">>),
      Chars(<<"nodes", "hierarchy", "edges">>),
      List(<<>>),
      List(<<Num(1)>>),
      List(<<Str("participants"), Str("events")>>),
      List(<<Str("mermaid_syntax")>>),
      List(<<Str("nodes"), Str("hierarchy"), Str("edges")>>) }
ValueInputs == {Text(<<Val(v)>>) : v \in JsonValues} \cup {Text(<<X, Val(v)>>) : v \in JsonValues}

\* texts put together from braces, fences, prose, a member and whole objects
Segments ==
    { <<X>>, <<LB>>, <<RB>>, <<FO>>, <<FC>>,
      <<Mem("mermaid_syntax", Str("gantt"))>>,
      <<LB, Mem("mermaid_syntax", Str("gantt")), RB>>,
      <<FO, LB, Mem("mermaid_syntax", Str("flow")), RB, FC>> }

\* the most segments a text is put together from
MaxSegments == 3

\* the texts put together from at most n of the segments
RECURSIVE Concats(_, _)
Concats(segments, n) ==
    IF n = 0 THEN {<<>>}
    ELSE Concats(segments, n - 1)
             \cup {seg \o rest : seg \in segments, rest \in Concats(segments, n - 1)}
SegmentInputs == {Text(t) : t \in Concats(Segments, MaxSegments)}

ValidateInputs == ObjectInputs \cup GraphInputs \cup ValueInputs \cup SegmentInputs

InitValidate ==
    /\ AgentIdle /\ InjectIdle /\ IndexIdle
    /\ vtext \in ValidateInputs
    /\ vdata = None
    /\ vret = Pending
    /\ vparsed = Pending

ValidateJson ==
    /\ vret = Pending
    /\ vdata' = json_loads(extract_json_str(vtext.toks))
    /\ vret' = validate_json(vtext)
    /\ UNCHANGED <<vtext, vparsed, agentVars, injectVars, indexVars>>

ParseJsonResponse ==
    /\ vparsed = Pending
    /\ vparsed' = _parse_json_response(vtext)
    /\ UNCHANGED <<vtext, vdata, vret, agentVars, injectVars, indexVars>>

NextValidate == ValidateJson \/ ParseJsonResponse

SpecValidate == InitValidate /\ [][NextValidate]_vars

HasKey(d, k) == k \in DOMAIN d.m

\* C10: the schema is chosen by the first rule that matches.  An object with both
\* 'participants' and 'events' is accepted exactly when both are lists, whatever
\* other keys it has; an object without both of them but with 'mermaid_syntax' is
\* accepted as it is; only an object of neither kind is judged by the Graph/Mindmap
\* rules, and then it is rejected unless it has 'nodes', 'hierarchy' and 'edges'.
C10_FirstMatchDispatch ==
    (vret /= Pending /\ vdata.ty = "obj")
    => LET sequenceKeys == HasKey(vdata, "participants") /\ HasKey(vdata, "events") IN
       /\ sequenceKeys =>
              IF vdata.m["participants"].ty = "list" /\ vdata.m["events"].ty = "list"
              THEN vret = vdata ELSE vret = None
       /\ (~sequenceKeys /\ HasKey(vdata, "mermaid_syntax")) => vret = vdata
       /\ (~sequenceKeys /\ ~HasKey(vdata, "mermaid_syntax") /\ vret /= None)
              => /\ vret = vdata
                 /\ HasKey(vdata, "nodes") /\ HasKey(vdata, "hierarchy") /\ HasKey(vdata, "edges")

C10_Witness ==
    /\ vret = None
    /\ vdata.ty = "obj"
    /\ HasKey(vdata, "participants") /\ HasKey(vdata, "events")
    /\ vdata.m["participants"].ty = "str"
    /\ HasKey(vdata, "mermaid_syntax")
    /\ HasKey(vdata, "nodes") /\ HasKey(vdata, "hierarchy") /\ HasKey(vdata, "edges")

\* an object that is judged by the Graph/Mindmap rules has been validated
GraphDispatched ==
    /\ vret /= Pending
    /\ vdata.ty = "obj"
    /\ ~(HasKey(vdata, "participants") /\ HasKey(vdata, "events"))
    /\ ~HasKey(vdata, "mermaid_syntax")

AllHave(list, keys) ==
    /\ list.ty = "list"
    /\ \A i \in DOMAIN list.items :
           list.items[i].ty = "obj" /\ keys \subseteq DOMAIN list.items[i].m

\* C11: an object judged by the Graph/Mindmap rules is accepted if and only if it
\* has 'nodes', 'hierarchy' and 'edges', nodes is a list of objects that all have an
\* 'id', and edges is a list of objects that all have 'source' and 'target'; the
\* result is the data when accepted and None otherwise.
C11_GraphAcceptance ==
    GraphDispatched
    => IF /\ HasKey(vdata, "nodes") /\ HasKey(vdata, "hierarchy") /\ HasKey(vdata, "edges")
          /\ AllHave(vdata.m["nodes"], {"id"})
          /\ AllHave(vdata.m["edges"], {"source", "target"})
       THEN vret = vdata
       ELSE vret = None

C11_Witness ==
    /\ GraphDispatched
    /\ vret = None
    /\ HasKey(vdata, "nodes") /\ HasKey(vdata, "hierarchy") /\ HasKey(vdata, "edges")
    /\ AllHave(vdata.m["nodes"], {"id"})
    /\ AllHave(vdata.m["edges"], {"source"})
    /\ vdata.m["edges"].items /= <<>>

\* C12: validate_json raises for no input text: whatever the text is, the call
\* ends by returning the data or None, never by an exception leaving the function.
C12_NeverRaises ==
    vret.ty \notin {"TypeError", "AttributeError"}

\* the ```json blocks of a text that hold an object: <<i, j>> with the fence at i,
\* the object text[i+1..j] and the closing fence at j+1
FencedObjects(text) ==
    {ij \in (1..Len(text)) \X (1..Len(text)) :
        /\ text[ij[1]].t = "fo"
        /\ ij[1] < ij[2] /\ ij[2] < Len(text)
        /\ text[ij[2] + 1].t = "fc"
        /\ IsObjectText(SubSeq(text, ij[1] + 1, ij[2]))}

\* braces opened and not closed within text[a..b]
Depth(text, a, b) ==
    Cardinality({i \in a..b : text[i].t = "lb"}) - Cardinality({i \in a..b : text[i].t = "rb"})

\* the balanced brace spans of a text: <<a, b>> with { at a and its matching } at b
BalancedSpans(text) ==
    {ab \in (1..Len(text)) \X (1..Len(text)) :
        /\ text[ab[1]].t = "lb"
        /\ ab[1] < ab[2]
        /\ Depth(text, ab[1], ab[2]) = 0
        /\ \A c \in ab[1]..(ab[2] - 1) : Depth(text, ab[1], c) > 0}

FirstOf(spans) == CHOOSE ab \in spans : \A cd \in spans : ab[1] <= cd[1]

NoJsonFound == [ty |-> "NoJsonFound"]

\* what the chain of the claim decodes: the first fenced object, else the first
\* balanced span, else nothing
ChainDecodes(text) ==
    IF FencedObjects(text) /= {}
    THEN json_loads(SubSeq(text, FirstOf(FencedObjects(text))[1] + 1,
                           FirstOf(FencedObjects(text))[2]))
    ELSE IF BalancedSpans(text) /= {}
    THEN json_loads(SubSeq(text, FirstOf(BalancedSpans(text))[1],
                           FirstOf(BalancedSpans(text))[2]))
    ELSE NoJsonFound

\* C13: extraction is an ordered chain, the same in validate_json and in
\* _parse_json_response: the value decoded is that of the first ```json block
\* holding an object, whatever braces are elsewhere; without such a block it is
\* that of the first balanced {...} span; without any brace span the result is
\* the failure value.
C13_ExtractionChain ==
    (vret /= Pending /\ vparsed /= Pending)
    => IF ChainDecodes(vtext.toks) = NoJsonFound
       THEN vret = None /\ vparsed = None
       ELSE /\ vdata = ChainDecodes(vtext.toks)
            /\ vparsed = CatchDecodeError(ChainDecodes(vtext.toks))

\* the ids the nodes of an accepted graph declare
NodeIds(data) == {data.m["nodes"].items[i].m["id"] : i \in DOMAIN data.m["nodes"].items}

\* C14: a Graph/Mindmap object the validator accepts has pairwise distinct node
\* ids, and the source and the target of each of its edges is the id of one of
\* its nodes.
C14_AcceptedGraphWellFormed ==
    (GraphDispatched /\ vret = vdata)
    => /\ \A i, j \in DOMAIN vdata.m["nodes"].items :
              i /= j => vdata.m["nodes"].items[i].m["id"] /= vdata.m["nodes"].items[j].m["id"]
       /\ \A i \in DOMAIN vdata.m["edges"].items :
              /\ vdata.m["edges"].items[i].m["source"] \in NodeIds(vdata)
              /\ vdata.m["edges"].items[i].m["target"] \in NodeIds(vdata)

----------------------------------------------------------------------------
(* diagram_generator.inject_data_into_html (app.inject_data_into_html is the *)
(* same code but for the message).  A str is a sequence of atoms: the        *)
(* characters the code looks for, and stretches of other text as one atom.   *)

start_marker == <<"/", "*", " [INJECTION_START] ", "*", "/">>
end_marker == <<"/", "*", " [INJECTION_END] ", "*", "/">>

\* the 1-based places where pat occurs in str
Occurrences(str, pat) ==
    {i \in 1..(Len(str) - Len(pat) + 1) : SubSeq(str, i, i + Len(pat) - 1) = pat}

\* str.find(pat): the 0-based index of the first occurrence, or -1
find(str, pat) == IF Occurrences(str, pat) = {} THEN -1 ELSE Min(Occurrences(str, pat)) - 1

\* str.replace(old, new): the occurrences of old, left to right, not overlapping
RECURSIVE replace(_, _, _)
replace(str, old, new) ==
    IF Len(str) < Len(old) THEN str
    ELSE IF SubSeq(str, 1, Len(old)) = old
    THEN new \o replace(SubSeq(str, Len(old) + 1, Len(str)), old, new)
    ELSE <<Head(str)>> \o replace(Tail(str), old, new)

\* the text json.dumps writes for a str: quotes and backslashes are escaped
RECURSIVE EscapeString(_)
EscapeString(cs) ==
    IF cs = <<>> THEN <<>>
    ELSE (IF Head(cs) \in {"\"", "\\"} THEN <<"\\", Head(cs)>> ELSE <<Head(cs)>>)
             \o EscapeString(Tail(cs))

\* json.dumps(json_data, indent=2) of a dict with no key or with one str under a key;
\* the text of any other value is one atom that tells the values apart
DumpMember(k, v) ==
    <<"{", "\n  ", "\"", k, "\"", ": ", "\"">> \o EscapeString(v.cs) \o <<"\"", "\n", "}">>
json_dumps(data) ==
    IF data.ty /= "obj" THEN <<ToString(data)>>
    ELSE IF \E k \in DOMAIN data.m : "cs" \notin DOMAIN data.m[k] THEN <<ToString(data)>>
    ELSE IF DOMAIN data.m = {} THEN <<"{", "}">>
    ELSE DumpMember(CHOOSE k \in DOMAIN data.m : TRUE, data.m[CHOOSE k \in DOMAIN data.m : TRUE])

\* json_str = json_str.replace("</", "<\\/")
\* an injector that embeds the serialized JSON as it is
EscapeClosingTags_Off(json_str) == json_str
EscapeClosingTags(json_str) == replace(json_str, <<"<", "/">>, <<"<", "\\", "/">>)

new_block(json_str) ==
    start_marker \o <<"\n            const architectureData = ">> \o json_str
        \o <<";\n            ">> \o end_marker

\* both indices come from find, the first occurrence of each marker; without one of
\* them the template is returned as it was given
inject_data_into_html(html, data) ==
    IF find(html, start_marker) /= -1 /\ find(html, end_marker) /= -1
    THEN SubSeq(html, 1, find(html, start_marker))
             \o new_block(EscapeClosingTags(json_dumps(data)))
             \o SubSeq(html, find(html, end_marker) + Len(end_marker) + 1,
                       Len(html))
    ELSE html

\* the templates: from one to MaxPieces pieces, each a marker or a character (the
\* callers do not inject into an empty template)
TemplatePieces == {start_marker, end_marker, <<"<">>, <<"/">>, <<"a">>}
MaxPieces == 3
Templates == {Chars(t) : t \in Concats(TemplatePieces, MaxPieces) \ {<<>>}}

\* the data: no member, or one str that can hold tags, markers, quotes, backslashes
Payloads ==
    { <<"a">>,
      <<"<", "/", "script", ">">>,
      <<"<", "<", "/", "/">>,
      <<"<", "\\", "/">>,
      <<"\"", "<", "/">>,
      start_marker,
      end_marker,
      <<"<">> \o end_marker }
InjectData == {Obj(EmptyMap)} \cup {Obj([k \in {"label"} |-> Chars(cs)]) : cs \in Payloads}

InitInject ==
    /\ AgentIdle /\ ValidateIdle /\ IndexIdle
    /\ html_content \in Templates
    /\ json_data = None
    /\ previous = None
    /\ artifact = None
    /\ injections = "none"
    /\ current_json_data = None
    /\ chat_messages = <<>>

\* the first injection is given the template, the second the artifact of the first
InjectDataIntoHtml ==
    /\ injections \in {"none", "once"}
    /\ \E d \in InjectData :
           /\ json_data' = d
           /\ previous' = (IF injections = "none" THEN html_content ELSE artifact)
           /\ artifact' = Chars(inject_data_into_html(
                               IF injections = "none" THEN html_content.cs ELSE artifact.cs, d))
    /\ injections' = (IF injections = "none" THEN "once" ELSE "twice")
    /\ UNCHANGED <<html_content, current_json_data, chat_messages,
                   agentVars, validateVars, indexVars>>

NextInject == InjectDataIntoHtml

SpecInject == InitInject /\ [][NextInject]_vars

BothMarkers(str) == Occurrences(str.cs, start_marker) /= {} /\ Occurrences(str.cs, end_marker) /= {}

MarkerNotFound == [ty |-> "MarkerNotFound"]

\* C15: an injection into a text that lacks the start marker or the end marker
\* fails with MarkerNotFound; no artifact is returned.
C15_MarkerNotFound ==
    (injections /= "none" /\ ~BothMarkers(previous)) => artifact = MarkerNotFound

\* the first occurrence of each marker in the text an injection was given, 0-based
StartIdx == find(previous.cs, start_marker)
EndIdx == find(previous.cs, end_marker)
KeptPrefix == SubSeq(previous.cs, 1, StartIdx)
KeptSuffix == SubSeq(previous.cs, EndIdx + Len(end_marker) + 1, Len(previous.cs))
\* what the artifact holds between the prefix and the suffix it kept
InjectedSpan == SubSeq(artifact.cs, Len(KeptPrefix) + 1, Len(artifact.cs) - Len(KeptSuffix))

\* C16: for a template T with both markers, inject(T, D) is the prefix of T up to
\* the start marker, then the injected span, then the suffix of T after the end
\* marker: the two parts are unchanged, and they are disjoint parts of T, so that
\* nothing of T is kept twice, also when a marker occurs more than once or the end
\* marker precedes the start marker.
C16_MarkerPreservation ==
    (injections = "once" /\ BothMarkers(html_content))
    => /\ SubSeq(artifact.cs, 1, Len(KeptPrefix)) = KeptPrefix
       /\ SubSeq(artifact.cs, Len(artifact.cs) - Len(KeptSuffix) + 1, Len(artifact.cs)) = KeptSuffix
       /\ SubSeq(InjectedSpan, 1, Len(start_marker)) = start_marker
       /\ SubSeq(InjectedSpan, Len(InjectedSpan) - Len(end_marker) + 1, Len(InjectedSpan))
              = end_marker
       /\ StartIdx <= EndIdx + Len(end_marker)

\* C17: a second injection replaces the payload of the first: for a template T with
\* both markers, inject(inject(T, D1), D2) = inject(T, D2) for all D1 and D2, also
\* when a str of D1 holds the text of a marker.
C17_InjectionIdempotent ==
    (injections = "twice" /\ BothMarkers(html_content))
    => artifact.cs = inject_data_into_html(html_content.cs, json_data)

\* C18: the span an injection writes, from the start marker to the end marker, has
\* no "</" in it: each "</" of the serialized JSON is there as "<\/".
C18_NoClosingTagInSpan ==
    (injections /= "none" /\ BothMarkers(previous))
    => /\ SubSeq(InjectedSpan, 1, Len(start_marker)) = start_marker
       /\ SubSeq(InjectedSpan, Len(InjectedSpan) - Len(end_marker) + 1, Len(InjectedSpan))
              = end_marker
       /\ Occurrences(InjectedSpan, <<"<", "/">>) = {}
       /\ Cardinality(Occurrences(InjectedSpan, <<"<", "\\", "/">>))
              = Cardinality(Occurrences(json_dumps(json_data), <<"<", "/">>))

C18_Witness ==
    /\ injections = "once"
    /\ BothMarkers(html_content)
    /\ Occurrences(json_dumps(json_data), <<"<", "/", "script", ">">>) /= {}
    /\ Occurrences(artifact.cs, <<"<", "\\", "/", "script", ">">>) /= {}

----------------------------------------------------------------------------
(* agent/rag_pipeline.py: RAGPipeline._create_documents and build_index.    *)
(* A content is known by its length and by the number of chunks the text    *)
(* splitter of the library makes of it; a path by its directory, its file   *)
(* name and the suffix of the name.                                         *)

\* `if len(content) > 1500`
ChunkThreshold == 1500

FilePath(directory, filename, suffix) ==
    [directory |-> directory, filename |-> filename, suffix |-> suffix]
Paths == { FilePath("src", "a.py", ".py"),
           FilePath("docs", "b.md", ".md"),
           FilePath(".", "Makefile", "") }

\* the most chunks the splitter makes of one content, and the most files of a repository
MaxChunks == 3
MaxFiles == 2

\* text_splitter.split_text makes at most chunk_size characters a chunk and strips
\* blanks, so a content over the threshold gives any number of chunks: none when
\* it is blank, one when only blanks exceed the size, else two or more
Contents ==
    {[len |-> n, chunks |-> 1] : n \in {0, 1, ChunkThreshold}}
        \cup {[len |-> ChunkThreshold + 1, chunks |-> c] : c \in 0..MaxChunks}

\* files: the (path, file_data) items of the dict in order, the paths being distinct
FileMaps ==
    {fs \in UNION {[1..n -> [path : Paths, content : Contents]] : n \in 0..MaxFiles} :
        \A i, j \in DOMAIN fs : i /= j => fs[i].path /= fs[j].path}

_get_file_type(file_path) ==
    CASE file_path.suffix = ".py" -> "python"
      [] file_path.suffix = ".md" -> "markdown"
      [] OTHER -> "unknown"

Metadata(file) ==
    [source |-> file.path, file_type |-> _get_file_type(file.path), size |-> file.content.len,
     directory |-> file.path.directory, filename |-> file.path.filename]

ChunkMetadata(file, i, total) ==
    [source |-> file.path, file_type |-> _get_file_type(file.path), size |-> file.content.len,
     directory |-> file.path.directory, filename |-> file.path.filename,
     chunk_index |-> i, total_chunks |-> total]

\* text_splitter.split_text(content): the chunks, each known by its place
split_text(content) == [i \in 1..content.chunks |-> [of |-> content, part |-> i]]

\* the documents of one file
\* a loop body that also splits a content of exactly the threshold length
DocumentsOf_SplitAtThreshold(file) ==
    IF file.content.len >= ChunkThreshold
    THEN [i \in 1..Len(split_text(file.content)) |->
              [page_content |-> split_text(file.content)[i],
               metadata |-> ChunkMetadata(file, i - 1, Len(split_text(file.content)))]]
    ELSE <<[page_content |-> file.content, metadata |-> Metadata(file)]>>
DocumentsOf(file) ==
    IF file.content.len > ChunkThreshold
    THEN [i \in 1..Len(split_text(file.content)) |->
              [page_content |-> split_text(file.content)[i],
               metadata |-> ChunkMetadata(file, i - 1, Len(split_text(file.content)))]]
    ELSE <<[page_content |-> file.content, metadata |-> Metadata(file)]>>

RECURSIVE _create_documents(_)
_create_documents(fs) ==
    IF fs = <<>> THEN <<>> ELSE DocumentsOf(Head(fs)) \o _create_documents(Tail(fs))

ValueError(msg) == [ty |-> "ValueError", msg |-> msg]

InitIndex ==
    /\ AgentIdle /\ ValidateIdle /\ InjectIdle
    /\ files \in {List(fs) : fs \in FileMaps}
    /\ documents = None
    /\ indexed = Pending
    /\ rag_op = "none"
    /\ rag_arg = None
    /\ rag_results = None
    /\ rag_ret = None

\* RAGPipeline.build_index(files): raises when there is no document, else builds
\* the store from the documents and returns their number
BuildIndex ==
    /\ indexed = Pending
    /\ documents' = List(_create_documents(files.items))
    /\ IF _create_documents(files.items) = <<>>
       THEN /\ indexed' = ValueError("No documents to index")
            /\ vectorstore' = vectorstore
       ELSE /\ indexed' = Num(Len(_create_documents(files.items)))
            /\ vectorstore' = [ty |-> "index", docs |-> _create_documents(files.items)]
    /\ UNCHANGED <<files, rag_op, rag_arg, rag_results, rag_ret,
                   repo_data, overview, diagram_plan, plan_current, op, calls, exc, ret,
                   validateVars, injectVars>>

NextIndex == BuildIndex

SpecIndex == InitIndex /\ [][NextIndex]_vars

\* the documents made of the file at `path`, in the order they were made
DocumentsFrom(path) ==
    LET FromPath(d) == d.metadata.source = path IN SelectSeq(documents.items, FromPath)

RECURSIVE SumOver(_, _)
SumOver(fs, i) ==
    IF i > Len(fs) THEN 0
    ELSE (IF fs[i].content.len <= 1500 THEN 1 ELSE fs[i].content.chunks) + SumOver(fs, i + 1)

\* C19: a file whose content is at most 1500 characters long yields exactly one
\* document, without chunk_index and total_chunks; a longer one yields its N
\* chunks in order, with chunk_index 0..N-1 and total_chunks N; the source of
\* each document is the path of its file; the number build_index returns is the
\* sum of these numbers over the files.
C19_ChunksPerFile ==
    (indexed /= Pending /\ files /= None)
    => /\ \A i \in DOMAIN documents.items :
              \E f \in DOMAIN files.items :
                  documents.items[i].metadata.source = files.items[f].path
       /\ \A f \in DOMAIN files.items :
              IF files.items[f].content.len <= 1500
              THEN /\ Len(DocumentsFrom(files.items[f].path)) = 1
                   /\ DOMAIN DocumentsFrom(files.items[f].path)[1].metadata
                          \cap {"chunk_index", "total_chunks"} = {}
              ELSE /\ Len(DocumentsFrom(files.items[f].path)) = files.items[f].content.chunks
                   /\ \A i \in DOMAIN DocumentsFrom(files.items[f].path) :
                          /\ DocumentsFrom(files.items[f].path)[i].metadata.chunk_index = i - 1
                          /\ DocumentsFrom(files.items[f].path)[i].metadata.total_chunks
                                 = Len(DocumentsFrom(files.items[f].path))
       /\ Len(documents.items) = SumOver(files.items, 1)
       /\ indexed.ty = "num" => indexed = Num(SumOver(files.items, 1))

C19_Witness ==
    /\ indexed = Num(4)
    /\ Len(files.items) = 2
    /\ files.items[1].content.len = 1500
    /\ files.items[2].content.len > 1500
    /\ documents.items[4].metadata.chunk_index = 2
    /\ documents.items[4].metadata.total_chunks = 3

\* C20: build_index raises the empty-corpus error and builds no store when files
\* is empty, and also when every file of it has an empty content.
C20_EmptyCorpus ==
    (indexed /= Pending /\ files /= None
        /\ \A f \in DOMAIN files.items : files.items[f].content.len = 0)
    => /\ indexed = ValueError("No documents to index")
       /\ vectorstore = None

----------------------------------------------------------------------------
(* agent/rag_pipeline.py: the retrieval methods.  The similarity search of  *)
(* the store is library code: it returns the k best documents that pass the *)
(* filter, and which are best is not known, so the ranking is an input.     *)

\* get_file_context asks for k=20; get_architecture_context formats all_docs[:15]
FileContextK == 20
ArchitectureLimit == 15

\* repositories: none or few files, a file of more chunks than get_file_context
\* asks for, and more files than get_architecture_context formats
\* plan_diagrams: k of its queries, the cut of a block's content, the blocks kept
\* and the cut of the joined context
ContextK == 3
ContentCut == 500
ContextBlocks == 6
ContextCut == 5000

\* a directory name of n characters
RECURSIVE LongName(_)
LongName(n) ==
    IF n = 0 THEN ""
    ELSE IF n % 2 = 1 THEN "d" \o LongName(n - 1)
    ELSE LongName(n \div 2) \o LongName(n \div 2)

\* the repositories the retrieval operations are run on: none, one and two files, a
\* file of more chunks than get_file_context asks for, more files than
\* get_architecture_context formats, and a file whose path makes six blocks longer
\* than the cut of plan_diagrams
RagRepos ==
    { List(<<>>),
      List(<<[path |-> FilePath("src", "a.py", ".py"), content |-> [len |-> 1, chunks |-> 1]]>>),
      List(<<[path |-> FilePath("src", "a.py", ".py"), content |-> [len |-> 1, chunks |-> 1]],
             [path |-> FilePath("docs", "b.md", ".md"),
              content |-> [len |-> ChunkThreshold + 1, chunks |-> MaxChunks]]>>),
      List(<<[path |-> FilePath("docs", "b.md", ".md"),
              content |-> [len |-> ChunkThreshold + 1, chunks |-> FileContextK + 1]]>>),
      List([i \in 1..(ArchitectureLimit + 1) |->
               [path |-> FilePath("pkg", ToString(i) \o ".py", ".py"),
                content |-> [len |-> 1, chunks |-> 1]]]),
      List(<<[path |-> FilePath(LongName(ContextCut \div 12), "c.py", ".py"),
              content |-> [len |-> ChunkThreshold + 1, chunks |-> MaxChunks]]>>) }

Rankings == {"stored", "reversed"}

\* vectorstore.similarity_search(query, k=k, filter={'source': source}); source None
\* is the search without filter
similarity_search(docs, k, source, ranking) ==
    LET Passes(d) == source = None \/ d.metadata.source = source
        passed == SelectSeq(docs, Passes)
        ranked == IF ranking = "stored" THEN passed
                  ELSE [i \in 1..Len(passed) |-> passed[Len(passed) + 1 - i]]
    IN SubSeq(ranked, 1, IF k < Len(ranked) THEN k ELSE Len(ranked))

\* RAGPipeline.query (query_with_scores has the same guard and the same search)
\* a query that takes a store never built for an empty one
query_Unguarded(store, k, source, ranking) ==
    IF store = None THEN List(<<>>)
    ELSE List(similarity_search(store.docs, k, source, ranking))
query(store, k, source, ranking) ==
    IF store = None THEN ValueError("Index not built. Call build_index first.")
    ELSE List(similarity_search(store.docs, k, source, ranking))

\* sep.join(parts): the parts with the separator between them
RECURSIVE Join(_, _)
Join(parts, sep) ==
    IF Len(parts) <= 1 THEN parts
    ELSE <<Head(parts), [sep |-> sep]>> \o Join(Tail(parts), sep)

\* sorted(results, key=lambda d: d.metadata.get('chunk_index', 0))
ChunkIndexOrder(d1, d2) ==
    (IF "chunk_index" \in DOMAIN d1.metadata THEN d1.metadata.chunk_index ELSE 0)
        < (IF "chunk_index" \in DOMAIN d2.metadata THEN d2.metadata.chunk_index ELSE 0)

\* RAGPipeline.get_file_context from the results of its query on
FileContextOf(results) ==
    IF results.ty = "ValueError" THEN results
    ELSE Chars(Join([i \in 1..Len(results.items) |->
                        SortSeq(results.items, ChunkIndexOrder)[i].page_content], "\n"))

InitRag ==
    /\ AgentIdle /\ ValidateIdle /\ InjectIdle
    /\ files \in RagRepos
    /\ documents = None
    /\ indexed = Pending
    /\ rag_op = "none"
    /\ rag_arg = None
    /\ rag_results = None
    /\ rag_ret = None

RagFrame ==
    UNCHANGED <<files, documents, indexed, agentVars, validateVars, injectVars>>

Query ==
    \E k \in {1, 5} : \E source \in {None, FilePath("docs", "b.md", ".md")} :
        \E ranking \in Rankings :
            /\ rag_op' = "query"
            /\ rag_arg' = source
            /\ rag_results' = query(vectorstore, k, source, ranking)
            /\ rag_ret' = query(vectorstore, k, source, ranking)
            /\ RagFrame

\* the scores are those of the library: a document comes with its place in the ranking
QueryWithScores ==
    \E k \in {1, 5} : \E ranking \in Rankings :
        /\ rag_op' = "query_with_scores"
        /\ rag_arg' = None
        /\ rag_results' = query(vectorstore, k, None, ranking)
        /\ rag_ret' = (IF vectorstore = None THEN query(vectorstore, k, None, ranking)
                       ELSE List([i \in 1..Len(query(vectorstore, k, None, ranking).items) |->
                                     <<query(vectorstore, k, None, ranking).items[i], i>>]))
        /\ RagFrame

GetFileContext ==
    \E file_path \in Paths : \E ranking \in Rankings :
        /\ rag_op' = "get_file_context"
        /\ rag_arg' = file_path
        /\ rag_results' = query(vectorstore, FileContextK, file_path, ranking)
        /\ rag_ret' = FileContextOf(query(vectorstore, FileContextK, file_path, ranking))
        /\ RagFrame

\* the loop over the results of the six queries, one after the other: a document
\* is appended when its source has not been seen
\* a loop that appends every document
DedupBySource_KeepAll(docs, all_docs) == all_docs \o docs
RECURSIVE DedupBySource(_, _)
DedupBySource(docs, all_docs) ==
    IF docs = <<>> THEN all_docs
    ELSE IF \E i \in DOMAIN all_docs : all_docs[i].metadata.source = Head(docs).metadata.source
    THEN DedupBySource(Tail(docs), all_docs)
    ELSE DedupBySource(Tail(docs), Append(all_docs, Head(docs)))

\* RAGPipeline.get_architecture_context from all_docs on; a block is
\* f"=== {source} ===\n{doc.page_content}\n"
ArchitectureContextOf(all_docs) ==
    Chars(Join([i \in 1..(IF Len(all_docs) < ArchitectureLimit
                          THEN Len(all_docs) ELSE ArchitectureLimit) |->
                   [source |-> all_docs[i].metadata.source,
                    page_content |-> all_docs[i].page_content]], "\n"))

\* the first query raises when there is no store
GetArchitectureContext ==
    \E k \in {8, 10} : \E r \in [1..6 -> Rankings] :
        /\ rag_op' = "get_architecture_context"
        /\ rag_arg' = None
        /\ IF vectorstore = None
           THEN /\ rag_results' = query(vectorstore, k, None, r[1])
                /\ rag_ret' = query(vectorstore, k, None, r[1])
           ELSE /\ rag_results' = List([i \in 1..6 |-> query(vectorstore, k, None, r[i])])
                /\ rag_ret' = ArchitectureContextOf(DedupBySource(
                                  query(vectorstore, k, None, r[1]).items
                                      \o query(vectorstore, k, None, r[2]).items
                                      \o query(vectorstore, k, None, r[3]).items
                                      \o query(vectorstore, k, None, r[4]).items
                                      \o query(vectorstore, k, None, r[5]).items
                                      \o query(vectorstore, k, None, r[6]).items, <<>>))
        /\ RagFrame

\* len(str) of a path, and len(doc.page_content) when the splitter made chunks of
\* chunk_len characters
PathLen(path) ==
    IF path.directory = "." THEN Len(path.filename)
    ELSE Len(path.directory) + 1 + Len(path.filename)
PageLen(doc, chunk_len) ==
    IF "part" \in DOMAIN doc.page_content THEN chunk_len ELSE doc.page_content.len

\* a list that keeps every block
ContextBlocksOf_AllBlocks(docs, chunk_len) ==
    [i \in 1..Len(docs) |->
        [source |-> docs[i].metadata.source, page_content |-> docs[i].page_content,
         kept |-> PathLen(docs[i].metadata.source) + 3
                     + (IF PageLen(docs[i], chunk_len) < ContentCut
                        THEN PageLen(docs[i], chunk_len) ELSE ContentCut)]]
\* additional_context_parts[:6], a part being f"[{source}]\n{doc.page_content[:500]}";
\* `kept` is the number of its characters
ContextBlocksOf(docs, chunk_len) ==
    [i \in 1..(IF Len(docs) < ContextBlocks THEN Len(docs) ELSE ContextBlocks) |->
        [source |-> docs[i].metadata.source, page_content |-> docs[i].page_content,
         kept |-> PathLen(docs[i].metadata.source) + 3
                     + (IF PageLen(docs[i], chunk_len) < ContentCut
                        THEN PageLen(docs[i], chunk_len) ELSE ContentCut)]]

\* text[:n] of a joined text: whole pieces while they fit, then a part of one
PieceLen(piece) == IF "sep" \in DOMAIN piece THEN Len(piece.sep) ELSE piece.kept
RECURSIVE Prefix(_, _)
Prefix(pieces, n) ==
    IF pieces = <<>> \/ n = 0 THEN <<>>
    ELSE IF PieceLen(Head(pieces)) <= n
    THEN <<Head(pieces)>> \o Prefix(Tail(pieces), n - PieceLen(Head(pieces)))
    ELSE IF "sep" \in DOMAIN Head(pieces) THEN <<[sep |-> "\n"]>>
    ELSE <<[Head(pieces) EXCEPT !.kept = n]>>

\* the additional context of plan_diagrams as the prompt holds it
AdditionalContextOf(docs, chunk_len) ==
    Chars(Prefix(Join(ContextBlocksOf(docs, chunk_len), "\n\n"), ContextCut))

\* plan_diagrams from its four queries to the context of the prompt
PlanAdditionalContext ==
    \E r \in [1..4 -> Rankings] : \E chunk_len \in {ContentCut - 1, ChunkThreshold} :
        /\ rag_op' = "plan_diagrams"
        /\ rag_arg' = Num(chunk_len)
        /\ IF vectorstore = None
           THEN /\ rag_results' = query(vectorstore, ContextK, None, r[1])
                /\ rag_ret' = query(vectorstore, ContextK, None, r[1])
           ELSE /\ rag_results' = List([i \in 1..4 |-> query(vectorstore, ContextK, None, r[i])])
                /\ rag_ret' = AdditionalContextOf(
                                  query(vectorstore, ContextK, None, r[1]).items
                                      \o query(vectorstore, ContextK, None, r[2]).items
                                      \o query(vectorstore, ContextK, None, r[3]).items
                                      \o query(vectorstore, ContextK, None, r[4]).items,
                                  chunk_len)
        /\ RagFrame

SpecRag ==
    InitRag /\ [][BuildIndex \/ Query \/ QueryWithScores \/ GetFileContext
                     \/ GetArchitectureContext \/ PlanAdditionalContext]_vars

RetrievalOps == {"query", "query_with_scores", "get_file_context", "get_architecture_context"}

\* C21: a retrieval method called when no build_index has succeeded before it (none
\* was called, or the one called has failed) fails with the index-not-built error
\* and there is no store.
C21_IndexNotReady ==
    (rag_op \in RetrievalOps /\ indexed.ty /= "num")
    => /\ rag_ret = ValueError("Index not built. Call build_index first.")
       /\ vectorstore = None

C21_Witness ==
    /\ rag_op = "get_file_context"
    /\ indexed = ValueError("No documents to index")
    /\ rag_ret = ValueError("Index not built. Call build_index first.")

\* the chunks of the file at `path` as the index holds them: in chunking order
ChunksOf(path) ==
    LET FromPath(d) == d.metadata.source = path
    IN [i \in 1..Len(SelectSeq(vectorstore.docs, FromPath)) |->
           SelectSeq(vectorstore.docs, FromPath)[i].page_content]

\* C22: get_file_context(path) on a built index returns the chunks of the file at
\* path, all of them and no other, joined in ascending chunk_index order, whatever
\* the order of the search results and however many the chunks are.
C22_FileContextOrdered ==
    (rag_op = "get_file_context" /\ rag_ret.ty = "str")
    => rag_ret = Chars(Join(ChunksOf(rag_arg), "\n"))

\* the blocks of a context, without the separators between them
BlocksOf(context) ==
    LET IsBlock(a) == "source" \in DOMAIN a IN SelectSeq(context.cs, IsBlock)

\* the documents the six searches returned, query after query, each in rank order
RECURSIVE Flat(_, _)
Flat(results, i) ==
    IF i > Len(results) THEN <<>> ELSE results[i].items \o Flat(results, i + 1)

\* the places of Flat whose source no earlier place has
FirstSeenPlaces(flat) ==
    {i \in DOMAIN flat : \A j \in 1..(i - 1) : flat[j].metadata.source /= flat[i].metadata.source}

\* C23: get_architecture_context emits no two blocks with the same source: the
\* blocks are, in first-seen order (query order, then rank), the documents whose
\* source no earlier document of the six results has, and at most the first 15.
C23_ArchitectureDedup ==
    (rag_op = "get_architecture_context" /\ rag_ret.ty = "str")
    => /\ \A i, j \in DOMAIN BlocksOf(rag_ret) :
              i /= j => BlocksOf(rag_ret)[i].source /= BlocksOf(rag_ret)[j].source
       /\ Len(BlocksOf(rag_ret)) <= 15
       /\ Len(BlocksOf(rag_ret)) =
              (IF Cardinality(FirstSeenPlaces(Flat(rag_results.items, 1))) < 15
               THEN Cardinality(FirstSeenPlaces(Flat(rag_results.items, 1))) ELSE 15)
       /\ \A n \in DOMAIN BlocksOf(rag_ret) :
              \E i \in FirstSeenPlaces(Flat(rag_results.items, 1)) :
                  /\ Cardinality({j \in FirstSeenPlaces(Flat(rag_results.items, 1)) : j <= i}) = n
                  /\ BlocksOf(rag_ret)[n].source = Flat(rag_results.items, 1)[i].metadata.source
                  /\ BlocksOf(rag_ret)[n].page_content = Flat(rag_results.items, 1)[i].page_content

C23_Witness ==
    /\ rag_op = "get_architecture_context"
    /\ rag_ret.ty = "str"
    /\ Len(BlocksOf(rag_ret)) = 15
    /\ Cardinality(FirstSeenPlaces(Flat(rag_results.items, 1))) = 16
    /\ Len(Flat(rag_results.items, 1)) > 16


----------------------------------------------------------------------------
(* Failure handling of the agent, checked under Spec *)

\* the types the diagram generator has a configuration for
KnownDiagramTypes == {Str("Sequence"), Str("Mindmap"), Str("Graph"), Str("Timeline")}

\* C24: a diagram type that is not Sequence, Mindmap, Graph or Timeline is an error
\* of the agent's generate_diagram_data before any LLM call: no call is issued for
\* a spec of such a type.
C24_UnknownTypeRejected ==
    \A i \in DOMAIN calls :
        IsDiagramCall(calls[i])
        => Get(calls[i].spec, "type", Str("Sequence")) \in KnownDiagramTypes

\* C25: an LLM call that raises does not make the operation raise: the overview
\* stage stores and returns an Overview, the plan stage a plan, and
\* generate_all_diagrams goes on to the remaining specs of the plan.
C25_LLMFailureRecovered ==
    /\ exc /= "LLMError"
    /\ (op = "analyze_overview" /\ calls /= <<>> /\ calls[1].resp = Raised)
           => (Truthy(overview) /\ ret = overview)
    /\ (op = "plan_diagrams" /\ calls /= <<>> /\ LastCall.resp = Raised)
           => (Truthy(diagram_plan) /\ ret = diagram_plan)
    /\ (op = "generate_all_diagrams" /\ exc \in {"none", "LLMError"} /\ Truthy(diagram_plan))
           => Len(DiagramCallLog) = Len(PlanSpecs(diagram_plan))


----------------------------------------------------------------------------
(* RepoAnalysisAgent.run_full_analysis *)

\* the first two statements: analyze_overview(), then plan_diagrams()
FullAnalysisPlan(s, o) ==
    IF Failed(analyze_overview(s, o)) THEN analyze_overview(s, o)
    ELSE plan_diagrams(analyze_overview(s, o), o)

\* the dictionary run_full_analysis returns
FullAnalysisResult(s, overview_, diagram_plan_, diagrams) ==
    IF Failed(s) THEN s
    ELSE [s EXCEPT !.ret = [ty |-> "result", overview |-> overview_,
                            diagram_plan |-> diagram_plan_, diagrams |-> diagrams,
                            documentation |-> s.ret]]

\* a documentation stage that is skipped when there is no diagram
FullAnalysisDocument_SkipEmpty(s, o) ==
    IF Failed(s) THEN s
    ELSE IF s.ret.items = <<>>
    THEN FullAnalysisResult([s EXCEPT !.ret = Text(<<>>)], s.overview, s.diagram_plan, s.ret)
    ELSE FullAnalysisResult(generate_documentation(s, o, s.ret),
                            s.overview, s.diagram_plan, s.ret)

\* documentation = self.generate_documentation(diagrams); return {...}
FullAnalysisDocument(s, o) ==
    IF Failed(s) THEN s
    ELSE FullAnalysisResult(generate_documentation(s, o, s.ret),
                            s.overview, s.diagram_plan, s.ret)

run_full_analysis(s, o) ==
    FullAnalysisDocument(
        IF Failed(FullAnalysisPlan(s, o)) THEN FullAnalysisPlan(s, o)
        ELSE generate_all_diagrams(FullAnalysisPlan(s, o), o), o)

\* the calls of the diagram loop are drawn once the plan is known, the call of the
\* documentation stage after them; a caller runs the pipeline once per ingest
RunFullAnalysis ==
    /\ op /= "run_full_analysis"
    /\ \E o1 \in Oracles(<<"overview", "plan">>) :
         \E o2 \in Oracles(DiagramCalls(FullAnalysisPlan(Cur, o1))) :
             \E o3 \in Oracles(<<"doc">>) :
                 Commit(run_full_analysis(Cur, o1 \o o2 \o o3), "run_full_analysis")

SpecFull == Init /\ [][IngestRepository \/ RunFullAnalysis]_vars

\* the stages of the logged calls, in call order
CallStages == [i \in DOMAIN calls |-> calls[i].stage]

----------------------------------------------------------------------------
(* The additional context of plan_diagrams, checked under SpecRag *)

\* the number of characters of a context
RECURSIVE TotalLen(_)
TotalLen(pieces) == IF pieces = <<>> THEN 0 ELSE PieceLen(Head(pieces)) + TotalLen(Tail(pieces))

\* the characters of the n first results when each is formatted with its content cut
\* to 500 characters and they are joined with blank lines
RECURSIVE FormattedLen(_, _, _)
FormattedLen(flat, n, chunk_len) ==
    IF n = 0 THEN 0
    ELSE FormattedLen(flat, n - 1, chunk_len) + (IF n > 1 THEN 2 ELSE 0)
             + PathLen(flat[n].metadata.source) + 3
             + (IF PageLen(flat[n], chunk_len) < 500 THEN PageLen(flat[n], chunk_len) ELSE 500)

\* C27: the additional context of plan_diagrams holds, in query order and then
\* rank, blocks of the first 6 results of the four queries only, the content of a
\* block cut to 500 characters, and of their joined text the first 5000
\* characters; so when the first two queries return 3 documents each, every block
\* is a result of the first or the second query.
C27_AdditionalContextCaps ==
    (rag_op = "plan_diagrams" /\ rag_ret.ty = "str")
    => /\ Len(BlocksOf(rag_ret)) <= 6
       /\ \A n \in DOMAIN BlocksOf(rag_ret) :
              /\ BlocksOf(rag_ret)[n].source = Flat(rag_results.items, 1)[n].metadata.source
              /\ BlocksOf(rag_ret)[n].page_content = Flat(rag_results.items, 1)[n].page_content
              /\ BlocksOf(rag_ret)[n].kept <= PathLen(BlocksOf(rag_ret)[n].source) + 3 + 500
       /\ TotalLen(rag_ret.cs) =
              (IF FormattedLen(Flat(rag_results.items, 1),
                               IF Len(Flat(rag_results.items, 1)) < 6
                               THEN Len(Flat(rag_results.items, 1)) ELSE 6, rag_arg.n) < 5000
               THEN FormattedLen(Flat(rag_results.items, 1),
                                 IF Len(Flat(rag_results.items, 1)) < 6
                                 THEN Len(Flat(rag_results.items, 1)) ELSE 6, rag_arg.n)
               ELSE 5000)
       /\ (Len(rag_results.items[1].items) = 3 /\ Len(rag_results.items[2].items) = 3)
              => \A n \in DOMAIN BlocksOf(rag_ret) :
                     BlocksOf(rag_ret)[n].page_content
                         = (rag_results.items[1].items \o rag_results.items[2].items)[n].page_content

\* six blocks of the first two queries, the last one cut by the limit of 5000
\* characters, and nothing of the results of the third and the fourth query
C27_Witness ==
    /\ rag_op = "plan_diagrams"
    /\ rag_ret.ty = "str"
    /\ Len(rag_results.items[3].items) = 3
    /\ Len(rag_results.items[1].items) = 3
    /\ Len(BlocksOf(rag_ret)) = 6
    /\ TotalLen(rag_ret.cs) = 5000
    /\ BlocksOf(rag_ret)[6].kept < BlocksOf(rag_ret)[5].kept


----------------------------------------------------------------------------
(* The empty object and the failed ingest, checked under Spec *)

\* the response parses to the empty object
ParsesToEmpty(c) == c.resp /= Raised /\ _parse_json_response(c.resp) = Obj(EmptyMap)

\* C28: a response that parses to {} is handled like unparsable text: the overview
\* stage stores the degraded Overview (project_type "unknown", raw_analysis the raw
\* text), the plan stage the default plan of one spec; a stored Overview and a
\* stored plan are never falsy; and the auto-invoke of a later stage does not run
\* again a stage whose value is stored.
C28_EmptyObjectDegrades ==
    [][/\ (op' = "analyze_overview" /\ calls' /= <<>> /\ ParsesToEmpty(calls'[1]))
            => /\ exc' = "none"
               /\ Truthy(overview')
               /\ overview'.m["project_type"] = Str("unknown")
               /\ overview'.m["raw_analysis"] = calls'[1].resp
       /\ (op' = "plan_diagrams" /\ calls' /= <<>>
              /\ calls'[Len(calls')].stage = "plan" /\ ParsesToEmpty(calls'[Len(calls')]))
            => /\ exc' = "none"
               /\ Truthy(diagram_plan')
               /\ Len(PlanSpecs(diagram_plan')) = 1
               /\ PlanSpecs(diagram_plan')[1].m["type"] = Str("Sequence")
       /\ overview' /= None => Truthy(overview')
       /\ diagram_plan' /= None => Truthy(diagram_plan')
       /\ (overview /= None /\ op' \in {"plan_diagrams", "generate_all_diagrams"})
            => \A i \in DOMAIN calls' : calls'[i].stage /= "overview"
       /\ (diagram_plan /= None /\ op' = "generate_all_diagrams")
            => \A i \in DOMAIN calls' : calls'[i].stage \notin {"overview", "plan"}
      ]_vars

\* plan_diagrams ran with {} stored as nothing before: both stages got {} from the
\* LLM and both stored their default
C28_Witness ==
    /\ op = "plan_diagrams"
    /\ exc = "none"
    /\ Len(calls) = 2
    /\ ParsesToEmpty(calls[1])
    /\ ParsesToEmpty(calls[2])
    /\ overview.m["project_type"] = Str("unknown")
    /\ Len(PlanSpecs(diagram_plan)) = 1


\* C29: a failed ingest_repository leaves the repository recorded as repo_data and
\* the index as it was; analyze_overview with repo_data and without index fails
\* with the index-not-built error of the first retrieval, issues no LLM call and
\* stores no Overview; analyze_overview without repo_data fails with 'No
\* repository data' and changes nothing.
C29_FailedIngest ==
    [][/\ (op' = "ingest_repository" /\ exc' /= "none")
            => /\ exc' = "ValueError: No documents to index"
               /\ Truthy(repo_data')
               /\ repo_data'.nfiles = 0
               /\ vectorstore' = vectorstore
       /\ (op' = "analyze_overview" /\ Truthy(repo_data) /\ vectorstore = None)
            => /\ exc' = "ValueError: Index not built"
               /\ calls' = <<>>
               /\ UNCHANGED <<repo_data, vectorstore, overview, diagram_plan>>
       /\ (op' = "analyze_overview" /\ repo_data = None)
            => /\ exc' = "ValueError: No repository data"
               /\ calls' = <<>>
               /\ UNCHANGED <<repo_data, vectorstore, overview, diagram_plan>>
      ]_vars

\* the only ingest was of a repository without files, and analyze_overview followed
C29_Witness ==
    /\ op = "analyze_overview"
    /\ exc = "ValueError: Index not built"
    /\ repo_data /= None
    /\ repo_data.nfiles = 0
    /\ vectorstore = None
    /\ overview = None
    /\ calls = <<>>


----------------------------------------------------------------------------
(* app.py: the session of the interactive generator *)

\* the prompts a session takes
MaxPrompts == 3

\* the HTML templates the loaders read, by graph type; a loader returns None when
\* its file is missing
HtmlTemplate(graph_type) ==
    CASE graph_type = "Sequence" -> Chars(<<"s">> \o start_marker \o <<"a">> \o end_marker)
      [] graph_type = "Timeline" -> Chars(<<"t">> \o start_marker \o <<"a">> \o end_marker)
      [] OTHER -> Chars(<<"g">> \o start_marker \o <<"a">> \o end_marker \o <<"/">>)
GraphTypes == {"Graph", "Mindmap", "Sequence", "Timeline"}
ErrorLoadingTemplate == Chars(<<"<div>Error loading template.</div>">>)

\* what the model answers: it raises, or returns prose, a valid graph alone or in a
\* fence, the empty object, null
GraphText(id) ==
    <<LB, Mem("nodes", List(<<Node(id)>>)), Mem("hierarchy", Obj(EmptyMap)),
      Mem("edges", List(<<>>)), RB>>
AppResponses ==
    { Raised, Text(<<X>>), Text(GraphText("n1")), Text(<<FO>> \o GraphText("n2") \o <<FC>>),
      Text(<<LB, RB>>), Text(<<Val(None)>>) }

\* the (new_html, json_data, error) a function of app.py returns
Result(new_html, data, error) == [new_html |-> new_html, json_data |-> data, error |-> error]

\* generate_graph from the validated response on
GenerateFromValidated(data, html_template) ==
    IF data.ty \in {"TypeError", "AttributeError"}
    THEN Result(None, None, "Exception: " \o data.ty)
    ELSE IF ~Truthy(data)
    THEN Result(None, None, "Failed to generate valid JSON. Model Output start: ...")
    ELSE IF html_template = None
    THEN Result(None, None, "Prompt template not found.")
    ELSE Result(Chars(inject_data_into_html(html_template.cs, data)), data, "")

generate_graph(response, graph_type, prompt_template, html_template) ==
    IF ~prompt_template
    THEN Result(None, None,
                CASE graph_type = "Mindmap" ->
                         "Mindmap prompt template (mindmap_prompt.txt) not found."
                  [] graph_type = "Sequence" ->
                         "Sequence prompt template (sequence_prompt.txt) not found."
                  [] graph_type = "Timeline" ->
                         "Timeline prompt template (timeline_prompt.txt) not found."
                  [] OTHER -> "Prompt template not found.")
    ELSE IF response = Raised THEN Result(None, None, "Exception: LLMError")
    ELSE GenerateFromValidated(validate_json(response), html_template)

\* re.sub(r'```json\s*', '', content), then re.sub(r'```\s*$', '', content)
StripFences(content) ==
    LET IsNotOpen(tok) == tok.t /= "fo"
        opened == SelectSeq(content, IsNotOpen)
    IN IF opened /= <<>> /\ opened[Len(opened)].t = "fc"
       THEN SubSeq(opened, 1, Len(opened) - 1) ELSE opened

\* modify_graph from json.loads on
ModifyFromLoaded(new_json_data, html_template) ==
    IF new_json_data = JSONDecodeError THEN Result(None, None, "JSONDecodeError")
    ELSE IF html_template = None THEN Result(None, None, "Unknown error during modification.")
    ELSE Result(Chars(inject_data_into_html(html_template.cs, new_json_data)), new_json_data, "")

modify_graph(response, graph_type, prompt_template, html_template) ==
    IF ~prompt_template THEN Result(None, None, "Modification prompt file missing.")
    ELSE IF response = Raised THEN Result(None, None, "LLMError")
    ELSE ModifyFromLoaded(json_loads(StripFences(response.toks)), html_template)

Message(role, content) == [role |-> role, content |-> content]

\* the session after the result of generate_graph or modify_graph
StoreResult(messages, result, done) ==
    IF result.new_html /= None
    THEN /\ html_content' = result.new_html
         /\ current_json_data' = result.json_data
         /\ chat_messages' = Append(messages, Message("assistant", done))
    ELSE /\ chat_messages' = Append(messages, Message("assistant", <<"Error: ", result.error>>))
         /\ UNCHANGED <<html_content, current_json_data>>

AppFrame ==
    UNCHANGED <<json_data, previous, artifact, injections, agentVars, validateVars, indexVars>>

\* main(): the branch of st.chat_input, up to st.rerun()
ChatInput ==
    /\ Len(chat_messages) < 2 * MaxPrompts
    /\ \E prompt \in {"Solar System"}, api_key \in BOOLEAN, graph_type \in GraphTypes,
          prompt_template \in BOOLEAN, response \in AppResponses :
          \E html_template \in {None, HtmlTemplate(graph_type)} :
              IF ~api_key
              THEN /\ chat_messages' =
                          Append(Append(chat_messages, Message("user", <<prompt>>)),
                                 Message("assistant", <<"Error: ", "API Key missing.">>))
                   /\ UNCHANGED <<html_content, current_json_data>>
              ELSE IF current_json_data = None
              THEN StoreResult(Append(chat_messages, Message("user", <<prompt>>)),
                               generate_graph(response, graph_type, prompt_template, html_template),
                               <<"Generated graph for: ", prompt>>)
              ELSE StoreResult(Append(chat_messages, Message("user", <<prompt>>)),
                               modify_graph(response, graph_type, prompt_template, html_template),
                               <<"Graph updated successfully!">>)
    /\ AppFrame

\* the first run of main(): the default template, or the text that stands for it
InitApp ==
    /\ AgentIdle /\ ValidateIdle /\ IndexIdle
    /\ json_data = None /\ previous = None /\ artifact = None /\ injections = "none"
    /\ current_json_data = None
    /\ chat_messages = <<>>
    /\ html_content \in {HtmlTemplate("Graph"), ErrorLoadingTemplate}

SpecApp == InitApp /\ [][ChatInput]_vars

\* the last message is the error of a failed prompt; the messages that a generation
\* succeeded
IsError(message) == message.role = "assistant" /\ message.content[1] = "Error: "
IsGenerated(message) == message.role = "assistant" /\ message.content[1] = "Generated graph for: "
GeneratedMessages == SelectSeq(chat_messages, IsGenerated)

\* C30: current_json_data and html_content change only on a successful
\* generation or modification; a failed one leaves both as they were and appends
\* one error message of the assistant after the prompt; once a generation has
\* succeeded every later prompt is a modification, so no second generation
\* succeeds; and html_content is the default template while current_json_data is
\* None, and a template with current_json_data injected otherwise.
C30_SessionFrame ==
    [][/\ Len(chat_messages') = Len(chat_messages) + 2
       /\ chat_messages'[Len(chat_messages) + 1].role = "user"
       /\ IsError(chat_messages'[Len(chat_messages')])
              => UNCHANGED <<html_content, current_json_data>>
       /\ ~IsError(chat_messages'[Len(chat_messages')])
              => chat_messages'[Len(chat_messages')].content[1]
                     \in {"Generated graph for: ", "Graph updated successfully!"}
       /\ Len(SelectSeq(chat_messages', IsGenerated)) <= 1
       /\ IF current_json_data' = None
          THEN html_content' \in {HtmlTemplate("Graph"), ErrorLoadingTemplate}
          ELSE \E graph_type \in GraphTypes :
                   html_content'.cs
                       = inject_data_into_html(HtmlTemplate(graph_type).cs, current_json_data')
      ]_vars

====
